---- MODULE Spec2Model ----
(***************************************************************************)
(* opsdata.js: the data layer of the "ops driver" application.             *)
(*                                                                         *)
(* Local persistence facade (getAll / put / update / remove / clearStore)  *)
(* over two backends: the structured store (IndexedDB, object stores keyed *)
(* by "id" with autoIncrement) and the flat store (localStorage, one JSON  *)
(* array per collection under "ops_" + name).  Every facade call first     *)
(* tries the structured store and, when that attempt rejects, runs the     *)
(* catch branch on the flat store.                                         *)
(*                                                                         *)
(* A JavaScript object is a function from field names to values; a field   *)
(* that is absent is not in the DOMAIN.  Times (ISO strings produced by    *)
(* new Date().toISOString(), which order like the instants they denote)    *)
(* are positive integers.  JSON.stringify / JSON.parse of an array of such *)
(* objects (numbers and strings only, no undefined-valued field) gives the *)
(* same array back, so the flat store holds the array itself.              *)
(***************************************************************************)
EXTENDS Integers, Sequences, FiniteSets, TLC

\* Bounds of the model.
\* Identifiers callers supply are 1..MaxId.
MaxId == 2
\* Instants of the clock are 1..MaxTime; every put and every update that
\* finds its record happens at an instant of its own, so MaxTime - 1 bounds
\* the number of such calls in a run.
MaxTime == 3

STORES == {"users", "vehicles", "requests", "movements"}

\* The collection the modelled callers of the generic facade operate on.
Cols == {"users"}

Ids == 1..MaxId

VARIABLES
    idb,      \* structured store: collection -> set of records, one per key
    nextKey,  \* structured store: collection -> key generator's current number
    ls,       \* flat store: collection -> the array stored under "ops_" + name
    now,      \* the clock: what the next new Date() reads
    base,     \* window.__OPS_REMOTE_BASE__ when the script loads ("" = unset)
    blob,     \* remote store: collection -> the JSON array of its blob
    last,     \* the call that just completed: operation, result, backends
    issued,   \* history: collection -> the identifiers the store has assigned
    conn,     \* db, the memoized connection, and the indexedDB.open calls made
    tried,    \* the backends the call that just completed went to, in order
    job,      \* the exportAll result and the importAll call in progress
    upd       \* the update calls in progress, between their read and write

local == <<idb, nextKey, ls>>
remote == <<base, blob>>
async == <<conn, tried, job, upd>>
vars == <<idb, nextKey, ls, now, base, blob, last, issued, conn, tried, job, upd>>

----------------------------------------------------------------------------
\* JavaScript objects

\* x.k || 0 : the value of a numeric field, 0 when absent
Get(x, k) == IF k \in DOMAIN x THEN x[k] ELSE 0

\* Object.assign(a, b)
Assign(a, b) ==
    [k \in DOMAIN a \cup DOMAIN b |-> IF k \in DOMAIN b THEN b[k] ELSE a[k]]

RECURSIVE MaxOf(_)
MaxOf(S) ==
    IF S = {} THEN 0
    ELSE LET x == CHOOSE y \in S : TRUE
             m == MaxOf(S \ {x})
         IN IF x > m THEN x ELSE m

\* list.find(x => x.id === id): index of the first match, 0 when none
FindIndex(list, id) ==
    IF \E i \in 1..Len(list) : Get(list[i], "id") = id
    THEN CHOOSE i \in 1..Len(list) :
            /\ Get(list[i], "id") = id
            /\ \A j \in 1..(i - 1) : Get(list[j], "id") # id
    ELSE 0

\* list.splice(idx, 1)
Splice(list, idx) ==
    [i \in 1..(Len(list) - 1) |-> IF i < idx THEN list[i] ELSE list[i + 1]]

----------------------------------------------------------------------------
\* Structured store (IndexedDB object store, keyPath "id", autoIncrement)

\* cursor order: ascending key
RECURSIVE CursorList(_)
CursorList(S) ==
    IF S = {} THEN <<>>
    ELSE LET m == CHOOSE x \in S : \A y \in S : x.id <= y.id
         IN <<m>> \o CursorList(S \ {m})

\* the unique index "papeleta" of the requests store
IndexOK(c, S, v) ==
    (c = "requests" /\ "papeleta" \in DOMAIN v)
        => \A x \in S : ("papeleta" \in DOMAIN x /\ x.papeleta = v.papeleta)
                            => x.id = Get(v, "id")

\* os.put(value): the key it stores under
PutKey(c, v) == IF "id" \in DOMAIN v THEN v.id ELSE nextKey[c]

\* os.put(value): the store afterwards
OsPut(c, v) ==
    LET k == PutKey(c, v)
        w == Assign(v, [id |-> k])
    IN {x \in idb[c] : x.id # k} \cup {w}

\* os.put(value): the key generator afterwards
OsPutKeyGen(c, v) ==
    LET k == PutKey(c, v)
    IN IF k >= nextKey[c] THEN k + 1 ELSE nextKey[c]


\* tx(store, mode) = openDB().then(d => d.transaction(store, mode)...) and the
\* request made on the object store.  The environment decides, per attempt,
\* whether it resolves ("ok") or rejects ("fail": indexedDB missing or denied,
\* open error, transaction or request error); a rejection runs the .catch.
Outcomes == {"ok", "fail"}

Backend(o) == IF o = "ok" THEN "idb" ELSE "ls"

----------------------------------------------------------------------------
\* Flat store (localStorage)

\* value.id || (list.length ? Math.max(...list.map(x => x.id || 0)) + 1 : 1)
FlatId(list, v) ==
    IF Get(v, "id") # 0 THEN v.id
    ELSE IF Len(list) > 0
         THEN MaxOf({Get(list[i], "id") : i \in 1..Len(list)}) + 1
         ELSE 1

----------------------------------------------------------------------------
\* Local persistence facade.  Each operation is given as the result of the
\* whole call on collection c: the three stores of c afterwards, the value
\* the promise resolves to and the backends that served the call.

Result(i, k, l, ret, ok, rd, wr) ==
    [idb |-> i, key |-> k, ls |-> l, ret |-> ret, ok |-> ok, rd |-> rd, wr |-> wr]

\* what getAll(store) resolves to
getAllList(c, o) == IF o = "ok" THEN CursorList(idb[c]) ELSE ls[c]

\* a put that stamps every record, stamped before or not
StampAlways(value) == Assign(value, [createdAt |-> now])

\* value.createdAt = value.createdAt || new Date().toISOString()
Stamp(value) ==
    Assign(value, [createdAt |-> IF Get(value, "createdAt") # 0
                                 THEN value.createdAt ELSE now])

\* the .catch of put: append to the flat array
FlatPut(list, v) == Append(list, Assign(v, [id |-> FlatId(list, v)]))

putResult(c, value, o) ==
    LET v == Stamp(value)
    IN IF o = "ok" /\ IndexOK(c, idb[c], v)
       THEN Result(OsPut(c, v), OsPutKeyGen(c, v), ls[c],
                   PutKey(c, v), TRUE, "-", "idb")
       ELSE Result(idb[c], nextKey[c], FlatPut(ls[c], v),
                   FlatId(ls[c], v), TRUE, "-", "ls")

\* Object.assign(item, patch, { updatedAt: new Date().toISOString() })
Patched(item, patch) == Assign(Assign(item, patch), [updatedAt |-> now])

\* the .catch of update: localStorage.setItem("ops_" + store, JSON.stringify(list))
\* where list is what getAll resolved to, item changed in place
FlatUpdate(c, list, idx, item) == [list EXCEPT ![idx] = item]

updateResult(c, id, patch, o1, o2) ==
    LET list == getAllList(c, o1)
        idx == FindIndex(list, id)
    IN IF idx = 0
       THEN \* if (!item) return false
            Result(idb[c], nextKey[c], ls[c], 0, FALSE, Backend(o1), "-")
       ELSE LET item == Patched(list[idx], patch)
            IN IF o2 = "ok" /\ IndexOK(c, idb[c], item)
               THEN Result(OsPut(c, item), OsPutKeyGen(c, item), ls[c],
                           0, TRUE, Backend(o1), "idb")
               ELSE Result(idb[c], nextKey[c], FlatUpdate(c, list, idx, item),
                           0, TRUE, Backend(o1), "ls")

\* the .catch of remove: list.splice(idx, 1); localStorage.setItem(...)
FlatRemove(c, list, idx) == Splice(list, idx)

\* remove without its "if (idx < 0) return false": the delete is issued for
\* whatever id was given, and splice(-1, 1) takes the last record of the list
removeResultNoGuard(c, id, o1, o2) ==
    LET list == getAllList(c, o1)
        idx == FindIndex(list, id)
    IN IF o2 = "ok"
       THEN Result({x \in idb[c] : x.id # id}, nextKey[c], ls[c],
                   0, TRUE, Backend(o1), "idb")
       ELSE Result(idb[c], nextKey[c],
                   FlatRemove(c, list, IF idx = 0 THEN Len(list) ELSE idx),
                   0, TRUE, Backend(o1), "ls")

removeResult(c, id, o1, o2) ==
    LET list == getAllList(c, o1)
        idx == FindIndex(list, id)
    IN IF idx = 0
       THEN \* if (idx < 0) return false
            Result(idb[c], nextKey[c], ls[c], 0, FALSE, Backend(o1), "-")
       ELSE IF o2 = "ok"
            THEN \* os.delete(id)
                 Result({x \in idb[c] : x.id # id}, nextKey[c], ls[c],
                        0, TRUE, Backend(o1), "idb")
            ELSE Result(idb[c], nextKey[c], FlatRemove(c, list, idx),
                        0, TRUE, Backend(o1), "ls")

clearStoreResult(c, o) ==
    IF o = "ok"
    THEN \* os.clear(): the key generator keeps its number
         Result({}, nextKey[c], ls[c], 0, TRUE, "-", "idb")
    ELSE \* localStorage.removeItem("ops_" + store)
         Result(idb[c], nextKey[c], <<>>, 0, TRUE, "-", "ls")

\* the stores of collection c become those of result r
Store(c, r) ==
    /\ idb' = [idb EXCEPT ![c] = r.idb]
    /\ nextKey' = [nextKey EXCEPT ![c] = r.key]
    /\ ls' = [ls EXCEPT ![c] = r.ls]

----------------------------------------------------------------------------
\* The record of the call that just completed:
\*   op, c, id  the operation, its collection and (update, remove) identifier
\*   flt        the filter value given to a list operation ("" = none)
\*   ret        the identifier the call resolved to, 0 when it is no number
\*   ok         the boolean the call resolved to
\*   out        the list the call resolved to
\*   rd, wr     the backend that served the call's local read and write
\*   net        the number of fetch calls the call issued
\*   rem        the outcome of its remote attempt ("-" = none made)
\*   loc        the facade operation it ran ("-" = none)
Call(op, c, id, ret, ok, out, rd, wr) ==
    [op |-> op, c |-> c, id |-> id, flt |-> "", ret |-> ret, ok |-> ok,
     out |-> out, rd |-> rd, wr |-> wr, net |-> 0, rem |-> "-", loc |-> op]

\* item found by update / remove in the list its getAll resolved to
Found(c, id, o1) == FindIndex(getAllList(c, o1), id) # 0

getAll(c, o) ==
    /\ last' = Call("getAll", c, 0, 0, TRUE, getAllList(c, o), Backend(o), "-")
    /\ UNCHANGED <<idb, nextKey, ls, now, issued>>

\* history: put gave a record that came without an identifier the one in r
Issue(c, value, r) ==
    issued' = IF Get(value, "id") = 0
              THEN [issued EXCEPT ![c] = @ \cup {r.ret}]
              ELSE issued

put(c, value, o) ==
    LET r == putResult(c, value, o)
    IN /\ now < MaxTime
       /\ now' = now + 1
       /\ Store(c, r)
       /\ Issue(c, value, r)
       /\ last' = Call("put", c, Get(value, "id"), r.ret, r.ok, <<>>, r.rd, r.wr)

update(c, id, patch, o1, o2) ==
    LET r == updateResult(c, id, patch, o1, o2)
    IN /\ IF Found(c, id, o1)
          THEN now < MaxTime /\ now' = now + 1
          ELSE o2 = "ok" /\ now' = now
       /\ Store(c, r)
       /\ last' = Call("update", c, id, r.ret, r.ok, <<>>, r.rd, r.wr)
       /\ issued' = issued

remove(c, id, o1, o2) ==
    LET r == removeResult(c, id, o1, o2)
    IN /\ Found(c, id, o1) \/ o2 = "ok"
       /\ Store(c, r)
       /\ last' = Call("remove", c, id, r.ret, r.ok, <<>>, r.rd, r.wr)
       /\ UNCHANGED <<now, issued>>

clearStore(c, o) ==
    LET r == clearStoreResult(c, o)
    IN /\ Store(c, r)
       /\ last' = Call("clearStore", c, 0, r.ret, r.ok, <<>>, r.rd, r.wr)
       /\ UNCHANGED <<now, issued>>

----------------------------------------------------------------------------
\* The generic facade, called directly (OpsData.getAll, put, update, ...)

\* the records callers submit to put: new ones, ones carrying an identifier,
\* and ones read back earlier (identifier and createdAt)
Payloads ==
    {[f |-> "a"]}
        \cup {[id |-> i, f |-> "a"] : i \in Ids}
        \cup {[id |-> i, createdAt |-> 1, f |-> "a"] : i \in Ids}

\* the patches callers submit to update
Patches == {[f |-> "b"]}

\* No exportAll result yet and no importAll in progress:
\*   pc       "idle", "exported" (exportAll has resolved), "clearing" (the
\*            clearStore calls of importAll are in flight), "putting" (its
\*            loop of puts) or "done"
\*   exported what the last exportAll resolved to, collection -> list
\*   data     the object given to importAll
\*   pend     the collections whose clearStore is in flight
\*   started  the number of puts the loop has started
\*   flying   the puts in flight, by their number
\*   log      the collection and identifier of each put started, in order
\*   rets     what the puts completed so far resolved to, in order
\*   flat     some attempt since exportAll was called went to the flat store
\*   at       db as the calls in flight found it when they were made
NoJob ==
    [pc |-> "idle", exported |-> [c \in STORES |-> <<>>],
     data |-> [c \in STORES |-> <<>>], pend |-> {}, started |-> 0,
     flying |-> {}, log |-> <<>>, rets |-> <<>>, flat |-> FALSE, at |-> "null"]

\* The update calls that may be in progress at once
Slots == {1, 2}

\* No update in progress in a slot:
\*   pc    "idle", "read" (getAll has resolved, the item is patched, the
\*         write is to come) or "done"
\*   c, id the collection and identifier given
\*   patch the patch given
\*   list  the list its getAll resolved to, the item patched in place
\*   early no write of another slot had completed when its getAll resolved
\*   idx   the item's place in list
\*   ok    what the call resolved to
\*   rd, wr the backends that served its read and its write
\*   seq   the place of its write among the writes of all slots
NoUpdate ==
    [pc |-> "idle", c |-> "-", id |-> 0, patch |-> <<>>, list |-> <<>>,
     idx |-> 0, early |-> FALSE, ok |-> FALSE, rd |-> "-", wr |-> "-", seq |-> 0]

\* The stores of a fresh profile, the script loaded with
\* window.__OPS_REMOTE_BASE__ = b
InitWith(b) ==
    /\ idb = [c \in STORES |-> {}]
    /\ nextKey = [c \in STORES |-> 1]
    /\ ls = [c \in STORES |-> <<>>]
    /\ now = 1
    /\ base = b
    /\ blob = [c \in STORES |-> <<>>]
    /\ last = Call("init", "-", 0, 0, TRUE, <<>>, "-", "-")
    /\ issued = [c \in STORES |-> {}]
    /\ conn = [db |-> "null", opens |-> 0]
    /\ tried = <<>>
    /\ job = NoJob
    /\ upd = [k \in Slots |-> NoUpdate]

Init == InitWith("")

Next ==
    \/ \E c \in Cols, o \in Outcomes :
            getAll(c, o) /\ UNCHANGED <<remote, async>>
    \/ \E c \in Cols, value \in Payloads, o \in Outcomes :
            put(c, value, o) /\ UNCHANGED <<remote, async>>
    \/ \E c \in Cols, id \in Ids, patch \in Patches, o1, o2 \in Outcomes :
            update(c, id, patch, o1, o2) /\ UNCHANGED <<remote, async>>
    \/ \E c \in Cols, id \in Ids, o1, o2 \in Outcomes :
            remove(c, id, o1, o2) /\ UNCHANGED <<remote, async>>
    \/ \E c \in Cols, o \in Outcomes :
            clearStore(c, o) /\ UNCHANGED <<remote, async>>

Spec == Init /\ [][Next]_vars

----------------------------------------------------------------------------
\* Remote handler (api/store/[collection].js): one JSON array per collection

\* listData.reduce((m, x) => Math.max(m, x.id || 0), 0) + 1
NextRemoteId(list) == MaxOf({Get(list[k], "id") : k \in 1..Len(list)}) + 1

\* POST, op add: { id: nextId, createdAt: ..., ...body.payload } is pushed
HandlerAdd(list, payload) ==
    Append(list, Assign([id |-> NextRemoteId(list), createdAt |-> now], payload))

\* POST, op update: { ...listData[idx], ...body.payload, updatedAt: ... }
HandlerUpdate(list, id, payload) ==
    LET idx == FindIndex(list, id)
    IN IF idx = 0 THEN list
       ELSE [list EXCEPT ![idx] =
                Assign(Assign(list[idx], payload), [updatedAt |-> now])]

\* POST, op delete: listData.splice(idx, 1)
HandlerDelete(list, id) ==
    LET idx == FindIndex(list, id)
    IN IF idx = 0 THEN list ELSE Splice(list, idx)

\* POST, op replace with an array: listData = body.items
HandlerReplace(list, items) == items

\* the array written back by a POST with this body
handler(list, body) ==
    IF body.op = "replace" THEN HandlerReplace(list, body.items)
    ELSE IF body.op = "add" THEN HandlerAdd(list, body.payload)
    ELSE IF body.op = "update" THEN HandlerUpdate(list, body.id, body.payload)
    ELSE HandlerDelete(list, body.id)

\* whether the handler reads the clock for this body
HandlerStamps(list, body) ==
    \/ body.op = "add"
    \/ body.op = "update" /\ FindIndex(list, body.id) # 0

----------------------------------------------------------------------------
\* Remote adapter

\* (typeof window !== "undefined" && window.__OPS_REMOTE_BASE__) || "/api/store"
REMOTE_BASE == IF base # "" THEN base ELSE "/api/store"

\* What a fetch of the collection's URL comes to, decided by the environment.
\* GET:  "neterr"    fetch rejects
\*       "status"    a response whose ok is false
\*       "malformed" an ok response whose body is no JSON: r.json() rejects
\*       "nonarray"  an ok response whose JSON body is no array
\*       "array"     the handler's answer, the collection's array
GetOutcomes == {"neterr", "status", "malformed", "nonarray", "array"}

\* POST: "neterr"    fetch rejects, the handler never ran
\*       "status"    a response whose ok is false, nothing written
\*       "ok"        the handler ran and answered { ok: true }
\*       "okbad"     an ok response with a malformed body, no handler ran
PostOutcomes == {"neterr", "status", "ok", "okbad"}

\* remoteList(col): the array, an object, or null
remoteList(c, g) ==
    IF g = "array" THEN [kind |-> "array", list |-> blob[c]]
    ELSE IF g = "nonarray" THEN [kind |-> "object", list |-> <<>>]
    ELSE [kind |-> "null", list |-> <<>>]

\* remotePost without its "if (!r.ok) throw": only a rejected fetch throws
ThrewNoStatusCheck(p) == p = "neterr"

\* remotePost(col, body) throws: fetch rejected, or !r.ok
Threw(p) == p \in {"neterr", "status"}

\* the handler ran on the POST
Reached(p) == p = "ok"

\* "if (r) return r" in place of the Array.isArray test
IsArrayTruthy(r) == r.kind # "null"

\* Array.isArray(r)
IsArray(r) == r.kind = "array"

\* x => x.field === v applied when a filter value is given
Filter(list, field, v) ==
    IF v = "" THEN list
    ELSE SelectSeq(list, LAMBDA x : field \in DOMAIN x /\ x[field] = v)

\* the record of a call that went through a wrapper
ApiCall(op, c, id, flt, ret, ok, out, rd, wr, net, rem, loc) ==
    [op |-> op, c |-> c, id |-> id, flt |-> flt, ret |-> ret, ok |-> ok,
     out |-> out, rd |-> rd, wr |-> wr, net |-> net, rem |-> rem, loc |-> loc]

\* the remote attempt of a write wrapper is made
Attempts == REMOTE_BASE # ""

\* a write wrapper without its "return true": it goes on to the local
\* operation whatever the remote attempt came to
ShortCircuitsNever(p) == FALSE

\* the write wrapper returns true after its remote attempt, without the
\* local operation: if (REMOTE_BASE) { try { await remotePost(...); return true; } catch (_) {} }
ShortCircuits(p) == Attempts /\ ~Threw(p)

\* the blob after the remote attempt of a write wrapper
Posted(c, body, p) ==
    blob' = IF Attempts /\ Reached(p)
            THEN [blob EXCEPT ![c] = handler(blob[c], body)]
            ELSE blob

\* the clock after a call: it has moved on when the call read it
Clock(read) == (read => now < MaxTime) /\ now' = IF read THEN now + 1 ELSE now

listWrapper(op, c, field, v, g, o) ==
    LET r == IF Attempts THEN remoteList(c, g) ELSE [kind |-> "null", list |-> <<>>]
        net == IF Attempts THEN 1 ELSE 0
        rem == IF Attempts THEN g ELSE "-"
    IN /\ Attempts \/ g = "neterr"
       /\ IF IsArray(r)
          THEN /\ o = "ok"
               /\ last' = ApiCall(op, c, 0, v, 0, TRUE, Filter(r.list, field, v),
                                  "-", "-", net, rem, "-")
          ELSE last' = ApiCall(op, c, 0, v, 0, TRUE,
                               Filter(getAllList(c, o), field, v),
                               Backend(o), "-", net, rem, "getAll")
       /\ UNCHANGED <<idb, nextKey, ls, now, base, blob, issued, async>>

addWrapper(op, c, payload, p, o) ==
    LET body == [op |-> "add", id |-> 0, payload |-> payload]
        net == IF Attempts THEN 1 ELSE 0
        rem == IF Attempts THEN p ELSE "-"
        r == putResult(c, payload, o)
    IN /\ Attempts \/ p = "neterr"
       /\ Posted(c, body, p)
       /\ IF ShortCircuits(p)
          THEN /\ o = "ok"
               /\ Clock(Reached(p))
               /\ last' = ApiCall(op, c, 0, "", 0, TRUE, <<>>, "-", "-", net, rem, "-")
               /\ UNCHANGED <<idb, nextKey, ls, issued>>
          ELSE /\ Clock(TRUE)
               /\ Store(c, r)
               /\ Issue(c, payload, r)
               /\ last' = ApiCall(op, c, 0, "", r.ret, r.ok, <<>>, r.rd, r.wr,
                                  net, rem, "put")
       /\ UNCHANGED <<base, async>>

updateWrapper(op, c, id, patch, p, o1, o2) ==
    LET body == [op |-> "update", id |-> id, payload |-> patch]
        net == IF Attempts THEN 1 ELSE 0
        rem == IF Attempts THEN p ELSE "-"
        r == updateResult(c, id, patch, o1, o2)
        stamped == Attempts /\ Reached(p) /\ HandlerStamps(blob[c], body)
    IN /\ Attempts \/ p = "neterr"
       /\ Posted(c, body, p)
       /\ IF ShortCircuits(p)
          THEN /\ o1 = "ok" /\ o2 = "ok"
               /\ Clock(stamped)
               /\ last' = ApiCall(op, c, id, "", 0, TRUE, <<>>, "-", "-", net, rem, "-")
               /\ UNCHANGED <<idb, nextKey, ls>>
          ELSE /\ Found(c, id, o1) \/ o2 = "ok"
               /\ Clock(stamped \/ Found(c, id, o1))
               /\ Store(c, r)
               /\ last' = ApiCall(op, c, id, "", r.ret, r.ok, <<>>, r.rd, r.wr,
                                  net, rem, "update")
       /\ UNCHANGED <<base, issued, async>>

deleteWrapper(op, c, id, p, o1, o2) ==
    LET body == [op |-> "delete", id |-> id, payload |-> <<>>]
        net == IF Attempts THEN 1 ELSE 0
        rem == IF Attempts THEN p ELSE "-"
        r == removeResult(c, id, o1, o2)
    IN /\ Attempts \/ p = "neterr"
       /\ Posted(c, body, p)
       /\ IF ShortCircuits(p)
          THEN /\ o1 = "ok" /\ o2 = "ok"
               /\ last' = ApiCall(op, c, id, "", 0, TRUE, <<>>, "-", "-", net, rem, "-")
               /\ UNCHANGED <<idb, nextKey, ls>>
          ELSE /\ Found(c, id, o1) \/ o2 = "ok"
               /\ Store(c, r)
               /\ last' = ApiCall(op, c, id, "", r.ret, r.ok, <<>>, r.rd, r.wr,
                                  net, rem, "remove")
       /\ UNCHANGED <<now, base, issued, async>>

----------------------------------------------------------------------------
\* Domain API

\* the digits of n, as characters
Digit(d) == <<"0", "1", "2", "3", "4", "5", "6", "7", "8", "9">>[d + 1]

RECURSIVE StringOf(_)
StringOf(n) == IF n < 10 THEN <<Digit(n)>>
               ELSE StringOf(n \div 10) \o <<Digit(n % 10)>>

\* s.padStart(n, "0")
RECURSIVE PadStart(_, _)
PadStart(s, n) == IF Len(s) >= n THEN s ELSE PadStart(<<"0">> \o s, n)

\* Math.floor(Math.random() * 90000) + 10000, for the random numbers drawn
Randoms == {0, 89999}
Rnd(x) == x + 10000

\* new Date().getFullYear()
Years == {2025}

\* String(rnd).padStart(5, "0") + "-" + y
genPapeleta(x, y) == PadStart(StringOf(Rnd(x)), 5) \o <<"-">> \o StringOf(y)

\* the fields callers give to createRequest and addUser
RequestFields == {[f |-> "a"]}
Roles == {"", "driver"}
Estados == {"", "Pendiente"}
Notes == {"late"}

listUsers(role, g, o) == listWrapper("listUsers", "users", "role", role, g, o)

createRequest(r, x, y, p, o) ==
    addWrapper("createRequest", "requests",
               Assign([estado |-> "Pendiente", papeleta |-> genPapeleta(x, y)], r),
               p, o)

listRequests(estado, g, o) ==
    listWrapper("listRequests", "requests", "estado", estado, g, o)

deleteRequest(id, p, o1, o2) ==
    deleteWrapper("deleteRequest", "requests", id, p, o1, o2)

approveRequest(id, p, o1, o2) ==
    updateWrapper("approveRequest", "requests", id, [estado |-> "Aprobado"],
                  p, o1, o2)

\* { estado: "Rechazado", observacion: obs || "" }
rejectRequest(id, obs, p, o1, o2) ==
    updateWrapper("rejectRequest", "requests", id,
                  [estado |-> "Rechazado", observacion |-> obs], p, o1, o2)

addUser(u, p, o) == addWrapper("addUser", "users", u, p, o)

deleteUser(id, p, o1, o2) == deleteWrapper("deleteUser", "users", id, p, o1, o2)

\* the fields callers give to addUser
UserFields == {[role |-> "driver"], [role |-> "guard"]}

\* The domain API of the requests collection with a remote base configured.
\* The structured store is available throughout: each local attempt resolves.
LocalOutcomes == {"ok"}

InitRemote == InitWith("/remote")

NextRemote ==
    \/ \E r \in RequestFields, x \in Randoms, y \in Years,
          p \in PostOutcomes, o \in LocalOutcomes : createRequest(r, x, y, p, o)
    \/ \E estado \in Estados, g \in GetOutcomes, o \in LocalOutcomes :
            listRequests(estado, g, o)
    \/ \E id \in Ids, p \in PostOutcomes, o1, o2 \in LocalOutcomes :
            deleteRequest(id, p, o1, o2)
    \/ \E id \in Ids, p \in PostOutcomes, o1, o2 \in LocalOutcomes :
            approveRequest(id, p, o1, o2)
    \/ \E id \in Ids, obs \in Notes, p \in PostOutcomes, o1, o2 \in LocalOutcomes :
            rejectRequest(id, obs, p, o1, o2)

SpecRemote == InitRemote /\ [][NextRemote]_vars

\* The domain API of the users collection with the remote base left empty.
InitUnset == InitWith("")

NextUnset ==
    \/ \E u \in UserFields, p \in PostOutcomes, o \in Outcomes : addUser(u, p, o)
    \/ \E role \in Roles, g \in GetOutcomes, o \in Outcomes : listUsers(role, g, o)
    \/ \E id \in Ids, p \in PostOutcomes, o1, o2 \in Outcomes :
            deleteUser(id, p, o1, o2)

SpecUnset == InitUnset /\ [][NextUnset]_vars

\* The domain API of the requests collection, the structured store failing
\* at times, with callers that pass fields of their own for estado and
\* papeleta.
RequestInputs ==
    RequestFields
        \cup {[f |-> "a", estado |-> "Aprobado"],
              [f |-> "a", papeleta |-> <<"A", "1">>]}

InitRequests == InitWith("/remote")

NextRequests ==
    \/ \E r \in RequestInputs, x \in Randoms, y \in Years,
          p \in PostOutcomes, o \in Outcomes : createRequest(r, x, y, p, o)
    \/ \E id \in Ids, p \in PostOutcomes, o1, o2 \in Outcomes :
            approveRequest(id, p, o1, o2)
    \/ \E id \in Ids, obs \in Notes, p \in PostOutcomes, o1, o2 \in Outcomes :
            rejectRequest(id, obs, p, o1, o2)

SpecRequests == InitRequests /\ [][NextRequests]_vars

\* The remote handler on its own, POSTed to by any client.
\* the payloads of add and of update, and the arrays of replace
AddPayloads == {[f |-> "a"]} \cup {[id |-> i, f |-> "a"] : i \in Ids}
UpdatePayloads == {[f |-> "b"]} \cup {[id |-> i] : i \in Ids}
Replacements == {<<>>, <<[id |-> 1, f |-> "a"]>>}

\* POST /api/store/:collection with this body, answered 200
post(c, body) ==
    /\ blob' = [blob EXCEPT ![c] = handler(blob[c], body)]
    /\ Clock(HandlerStamps(blob[c], body))
    /\ last' = ApiCall(body.op, c, body.id, "", 0, TRUE, <<>>, "-", "-", 1, "ok", "-")
    /\ UNCHANGED <<idb, nextKey, ls, base, issued, async>>

InitHandler == InitWith("/remote")

NextHandler ==
    \/ \E payload \in AddPayloads :
            post("requests", [op |-> "add", id |-> 0, payload |-> payload])
    \/ \E id \in Ids, payload \in UpdatePayloads :
            post("requests", [op |-> "update", id |-> id, payload |-> payload])
    \/ \E id \in Ids :
            post("requests", [op |-> "delete", id |-> id, payload |-> <<>>])
    \/ \E items \in Replacements :
            post("requests", [op |-> "replace", id |-> 0, items |-> items])

SpecHandler == InitHandler /\ [][NextHandler]_vars

----------------------------------------------------------------------------
\* update, step by step: update(store, id, patch) is getAll(store).then(...),
\* so other calls run between the moment its getAll resolves and the moment
\* its write is made.

\* the patch the caller of each slot gives
SlotPatch(k) == IF k = 1 THEN [f |-> "b"] ELSE [g |-> "c"]

\* the writes completed so far
Writes == {upd[k].seq : k \in Slots} \ {0}

\* getAll has resolved: list.find, "if (!item) return false", Object.assign.
\* The clock is read once per call; the slots bound the calls.
updateRead(k, c, id, patch, o1) ==
    LET list == getAllList(c, o1)
        idx == FindIndex(list, id)
        u == [upd[k] EXCEPT !.c = c, !.id = id, !.patch = patch,
                            !.rd = Backend(o1), !.early = (Writes = {})]
    IN /\ upd[k].pc = "idle"
       /\ IF idx = 0
          THEN /\ upd' = [upd EXCEPT ![k] = [u EXCEPT !.pc = "done"]]
               /\ last' = Call("update", c, id, 0, FALSE, <<>>, Backend(o1), "-")
               /\ now' = now
          ELSE /\ upd' = [upd EXCEPT ![k] =
                            [u EXCEPT !.pc = "read", !.idx = idx,
                                      !.list = FlatUpdate(c, list, idx,
                                                   Patched(list[idx], patch))]]
               /\ last' = last
               /\ now' = now + 1
       /\ UNCHANGED <<idb, nextKey, ls, remote, issued, conn, tried, job>>

\* a write that takes the record as it is stored when the write is made and
\* patches that, instead of writing the item read earlier
updateWriteIsolated(u, o2) ==
    LET cur == {x \in idb[u.c] : x.id = u.id}
        item == IF cur = {} THEN u.list[u.idx]
                ELSE Patched(CHOOSE x \in cur : TRUE, u.patch)
    IN IF o2 = "ok" /\ IndexOK(u.c, idb[u.c], item)
       THEN Result(OsPut(u.c, item), OsPutKeyGen(u.c, item), ls[u.c],
                   0, TRUE, u.rd, "idb")
       ELSE Result(idb[u.c], nextKey[u.c], u.list, 0, TRUE, u.rd, "ls")

\* the write of the update in progress u: os.put(item) resolving to true, or
\* in the .catch localStorage.setItem("ops_" + store, JSON.stringify(list))
updateWrite(u, o2) ==
    LET item == u.list[u.idx]
    IN IF o2 = "ok" /\ IndexOK(u.c, idb[u.c], item)
       THEN Result(OsPut(u.c, item), OsPutKeyGen(u.c, item), ls[u.c],
                   0, TRUE, u.rd, "idb")
       ELSE Result(idb[u.c], nextKey[u.c], u.list, 0, TRUE, u.rd, "ls")

\* the write of slot k is made and the call resolves
updateDone(k, o2) ==
    LET u == upd[k]
        r == updateWrite(u, o2)
    IN /\ u.pc = "read"
       /\ Store(u.c, r)
       /\ upd' = [upd EXCEPT ![k] =
                     [u EXCEPT !.pc = "done", !.ok = r.ok, !.wr = r.wr,
                               !.seq = Cardinality(Writes) + 1]]
       /\ last' = Call("update", u.c, u.id, r.ret, r.ok, <<>>, r.rd, r.wr)
       /\ UNCHANGED <<now, remote, issued, conn, tried, job>>

\* Two callers updating the records that a third has put.
InitRace == InitWith("")

NextRace ==
    \/ \E c \in Cols, o \in Outcomes :
            put(c, [f |-> "a"], o) /\ UNCHANGED <<remote, async>>
    \/ \E k \in Slots, c \in Cols, id \in Ids, o1 \in Outcomes :
            updateRead(k, c, id, SlotPatch(k), o1)
    \/ \E k \in Slots, o2 \in Outcomes : updateDone(k, o2)

SpecRace == InitRace /\ [][NextRace]_vars

----------------------------------------------------------------------------
\* The connection: openDB and tx

\* What one tx(store, mode) and the request made on its object store come
\* to, decided by the environment:
\*   "ok"      openDB resolves, the transaction and the request succeed
\*   "openerr" indexedDB.open fails (req.onerror) or indexedDB is missing
\*   "txerr"   openDB resolves, the transaction or the request fails
TxOutcomes == {"ok", "openerr", "txerr"}

\* openDB resolves at once when db is set: no open can fail then
Possible(cn, a) == a = "openerr" => cn.db = "null"

\* openDB(): "if (db) return resolve(db)", else indexedDB.open, whose
\* onsuccess sets db; opens counts the connections indexedDB.open delivers
openDB(cn, a) ==
    IF cn.db = "open" \/ a = "openerr" THEN cn
    ELSE [db |-> "open", opens |-> cn.opens + 1]

\* a facade that keeps to the flat store once a call has fallen back to it
BackendsSticky(a) ==
    IF \E k \in 1..Len(tried) : tried[k] = "ls" THEN <<"ls">>
    ELSE IF a = "ok" THEN <<"idb">> ELSE <<"idb", "ls">>

\* the backends one tx(...).then(...).catch(...) of the facade goes to: the
\* structured store, and the flat store when that attempt rejects
Backends(a) == IF a = "ok" THEN <<"idb">> ELSE <<"idb", "ls">>

\* one such attempt made with connection state cn: the connection state
\* afterwards, the backends gone to and the outcome for the facade operation
Attempt(cn, a) ==
    LET bs == Backends(a)
    IN [conn |-> IF bs[1] = "idb" THEN openDB(cn, a) ELSE cn,
        tried |-> bs,
        o |-> IF bs[Len(bs)] = "idb" THEN "ok" ELSE "fail"]

\* a facade call of one attempt
OneAttempt(a, t) ==
    /\ Possible(conn, a)
    /\ t = Attempt(conn, a)
    /\ conn' = t.conn
    /\ tried' = t.tried
    /\ UNCHANGED <<remote, job, upd>>

\* a facade call of two attempts, update and remove: getAll, then the write
\* unless the item is not found
TwoAttempts(c, id, a1, a2, t1, t2) ==
    /\ Possible(conn, a1)
    /\ t1 = Attempt(conn, a1)
    /\ Possible(t1.conn, a2)
    /\ t2 = Attempt(t1.conn, a2)
    /\ IF Found(c, id, t1.o)
       THEN conn' = t2.conn /\ tried' = t1.tried \o t2.tried
       ELSE a2 = "ok" /\ conn' = t1.conn /\ tried' = t1.tried
    /\ UNCHANGED <<remote, job, upd>>

\* the attempts of calls made together, before any of them has resolved: each
\* finds db as it was; as gives the outcome per collection
Together(cn, as) ==
    [c \in STORES |-> Attempt(cn, as[c])]

\* exportAll(): Promise.all of one getAll per collection
exportAll(as) ==
    LET ts == Together(conn, as)
        n == Cardinality({c \in STORES : ts[c].conn.opens > conn.opens})
    IN /\ \A c \in STORES : Possible(conn, as[c])
       /\ conn' = [db |-> IF n > 0 THEN "open" ELSE conn.db,
                   opens |-> conn.opens + n]
       /\ tried' = ts["users"].tried \o ts["vehicles"].tried
                       \o ts["requests"].tried \o ts["movements"].tried
       /\ job' = [job EXCEPT !.pc = "exported",
                              !.exported = [c \in STORES |-> getAllList(c, ts[c].o)],
                              !.flat = \E c \in STORES : ts[c].o = "fail"]
       /\ last' = Call("exportAll", "-", 0, 0, TRUE, <<>>, "-", "-")
       /\ UNCHANGED <<idb, nextKey, ls, now, remote, issued, upd>>

\* The generic facade with the connection it runs on.
CallPayloads == {[f |-> "a"], [id |-> 1, f |-> "a"]}

InitCalls == InitWith("")

NextCalls ==
    \/ \E c \in Cols, a \in TxOutcomes : \E t \in {Attempt(conn, a)} :
            getAll(c, t.o) /\ OneAttempt(a, t)
    \/ \E c \in Cols, value \in CallPayloads, a \in TxOutcomes :
         \E t \in {Attempt(conn, a)} :
            put(c, value, t.o) /\ OneAttempt(a, t)
    \/ \E c \in Cols, id \in Ids, patch \in Patches, a1, a2 \in TxOutcomes :
         \E t1 \in {Attempt(conn, a1)} : \E t2 \in {Attempt(t1.conn, a2)} :
            update(c, id, patch, t1.o, t2.o) /\ TwoAttempts(c, id, a1, a2, t1, t2)
    \/ \E c \in Cols, id \in Ids, a1, a2 \in TxOutcomes :
         \E t1 \in {Attempt(conn, a1)} : \E t2 \in {Attempt(t1.conn, a2)} :
            remove(c, id, t1.o, t2.o) /\ TwoAttempts(c, id, a1, a2, t1, t2)
    \/ \E c \in Cols, a \in TxOutcomes : \E t \in {Attempt(conn, a)} :
            clearStore(c, t.o) /\ OneAttempt(a, t)

SpecCalls == InitCalls /\ [][NextCalls]_vars

\* A page that reads, exports and puts.
InitOpen == InitWith("")

NextOpen ==
    \/ \E c \in Cols, a \in TxOutcomes : \E t \in {Attempt(conn, a)} :
            getAll(c, t.o) /\ OneAttempt(a, t)
    \/ \E c \in Cols, value \in CallPayloads, a \in TxOutcomes :
         \E t \in {Attempt(conn, a)} :
            put(c, value, t.o) /\ OneAttempt(a, t)
    \/ \E as \in [STORES -> TxOutcomes] : exportAll(as)

SpecOpen == InitOpen /\ [][NextOpen]_vars

----------------------------------------------------------------------------
\* importAll, step by step

\* the records of list, each with its collection
Tag(c, list) == [k \in 1..Len(list) |-> <<c, list[k]>>]

\* for (const s of STORES) for (const item of obj[s] || []): the items in
\* the order the loop takes them
Items(data) ==
    Tag("users", data["users"]) \o Tag("vehicles", data["vehicles"])
        \o Tag("requests", data["requests"]) \o Tag("movements", data["movements"])

\* a call made while db was d resolves with outcome a: the connection
\* afterwards
Resolved(d, a) ==
    LET t == Attempt([db |-> d, opens |-> 0], a)
    IN [db |-> IF t.conn.db = "open" THEN "open" ELSE conn.db,
        opens |-> conn.opens + t.conn.opens]

\* importAll(data) is called: Promise.all(STORES.map(s => clearStore(s)))
importAll(data) ==
    /\ job' = [job EXCEPT !.pc = "clearing", !.data = data, !.pend = STORES,
                          !.started = 0, !.flying = {}, !.log = <<>>,
                          !.rets = <<>>, !.at = conn.db]
    /\ UNCHANGED <<idb, nextKey, ls, now, remote, last, issued, conn, tried, upd>>

\* one of its clearStore calls resolves; after the last of them the .then
\* callback runs
importCleared(c, a) ==
    LET t == Attempt([db |-> job.at, opens |-> 0], a)
        r == clearStoreResult(c, t.o)
        pend == job.pend \ {c}
    IN /\ job.pc = "clearing" /\ c \in job.pend
       /\ a = "openerr" => job.at = "null"
       /\ Store(c, r)
       /\ conn' = Resolved(job.at, a)
       /\ job' = [job EXCEPT !.pend = pend,
                             !.pc = IF pend = {} THEN "putting" ELSE "clearing",
                             !.flat = @ \/ t.o = "fail"]
       /\ UNCHANGED <<now, remote, last, issued, tried, upd>>

\* a loop that does not wait: the puts are started while the clearStore
\* calls or earlier puts are still in flight
StartsPutNoAwait(j) ==
    /\ j.pc \in {"clearing", "putting"}
    /\ j.started < Len(Items(j.data))

\* the loop of importAll may start its next put: all clearStore calls have
\* resolved (.then) and the put before has (await)
StartsPut(j) ==
    /\ j.pc = "putting" /\ j.flying = {}
    /\ j.started < Len(Items(j.data))

\* put(s, item) is called: createdAt is set if the item has none
importPut ==
    LET k == job.started + 1
        c == Items(job.data)[k][1]
        item == Items(job.data)[k][2]
        n == Cardinality({i \in 1..k : Items(job.data)[i][1] = c})
    IN /\ StartsPut(job)
       /\ Clock(Get(item, "createdAt") = 0)
       /\ job' = [job EXCEPT !.started = k, !.flying = @ \cup {k},
                             !.log = Append(@, <<c, Get(item, "id")>>),
                             !.data[c][n] = Stamp(item), !.at = conn.db]
       /\ UNCHANGED <<idb, nextKey, ls, remote, last, issued, conn, tried, upd>>

\* a put in flight resolves
importPutDone(k, a) ==
    LET c == Items(job.data)[k][1]
        item == Items(job.data)[k][2]
        t == Attempt([db |-> job.at, opens |-> 0], a)
        r == putResult(c, item, t.o)
    IN /\ k \in job.flying
       /\ a = "openerr" => job.at = "null"
       /\ Store(c, r)
       /\ Issue(c, item, r)
       /\ conn' = Resolved(job.at, a)
       /\ job' = [job EXCEPT !.flying = @ \ {k}, !.rets = Append(@, r.ret),
                             !.flat = @ \/ r.wr = "ls"]
       /\ UNCHANGED <<now, remote, last, tried, upd>>

\* the loop is over: return true
importReturn ==
    /\ job.pc = "putting" /\ job.flying = {}
    /\ job.started = Len(Items(job.data))
    /\ job' = [job EXCEPT !.pc = "done"]
    /\ last' = Call("importAll", "-", 0, 0, TRUE, <<>>, "-", "-")
    /\ UNCHANGED <<idb, nextKey, ls, now, remote, issued, conn, tried, upd>>

\* A page that fills two collections, exports them, clears and imports what
\* it exported.  The structured store opens and serves the page's reads and
\* clears; the put of an imported record may fail on it.
TransferCols == {"users", "vehicles"}
PutOutcomes == {"ok", "txerr"}

InitTransfer == InitWith("")

NextTransfer ==
    \/ \E c \in TransferCols, value \in CallPayloads : \E t \in {Attempt(conn, "ok")} :
            job.pc = "idle" /\ put(c, value, t.o) /\ OneAttempt("ok", t)
    \/ job.pc = "idle" /\ exportAll([c \in STORES |-> "ok"])
    \/ \E c \in TransferCols : \E t \in {Attempt(conn, "ok")} :
            job.pc = "exported" /\ clearStore(c, t.o) /\ OneAttempt("ok", t)
    \/ job.pc = "exported" /\ importAll(job.exported)
    \/ \E c \in STORES : importCleared(c, "ok")
    \/ importPut
    \/ \E k \in job.flying, a \in PutOutcomes : importPutDone(k, a)
    \/ importReturn

SpecTransfer == InitTransfer /\ [][NextTransfer]_vars

----------------------------------------------------------------------------
\* Properties of the local persistence facade

\* the records of list whose identifier is i
WithId(list, i) == {k \in 1..Len(list) : Get(list[k], "id") = i}

\* the records of list whose identifier is i
Records(list, i) == {list[k] : k \in WithId(list, i)}

\* the list a backend holds for collection c
Held(c, b) == IF b = "idb" THEN CursorList(idb[c]) ELSE ls[c]

\* the same after the step
HeldAfter(c, b) == IF b = "idb" THEN CursorList(idb'[c]) ELSE ls'[c]

\* record x carries the fields of value unchanged, and besides them at most
\* the identifier and createdAt
SamePayload(x, value) ==
    /\ \A k \in DOMAIN value : k \in DOMAIN x /\ x[k] = value[k]
    /\ DOMAIN x \subseteq DOMAIN value \cup {"id", "createdAt"}

\* C1: after put(collection, record) has returned identifier i, a following
\* getAll(collection) contains exactly one record whose id is i, and that
\* record carries the submitted payload unchanged except for the added
\* createdAt.  Stated here for the case most favourable to the claim, the
\* getAll being served by the backend that served the put.
C1_PutThenGetAll ==
    [][\A c \in Cols, value \in Payloads, o \in Outcomes :
          put(c, value, o) =>
              LET list == HeldAfter(c, last'.wr)
                  hits == WithId(list, last'.ret)
              IN /\ Cardinality(hits) = 1
                 /\ \A k \in hits : SamePayload(list[k], value)]_vars

\* C1, on the structured store alone: there the put is an insert or an
\* overwrite by key and the claim holds.
C1_StructuredPutThenGetAll ==
    [][\A c \in Cols, value \in Payloads, o \in Outcomes :
          (put(c, value, o) /\ last'.wr = "idb") =>
              LET list == HeldAfter(c, "idb")
                  hits == WithId(list, last'.ret)
              IN /\ Cardinality(hits) = 1
                 /\ \A k \in hits : SamePayload(list[k], value)]_vars

C1_Witness ==
    /\ last.op = "put" /\ last.wr = "ls"
    /\ Cardinality(WithId(ls[last.c], last.ret)) = 2

\* no record of the list has identifier i
Absent(list, i) == \A k \in 1..Len(list) : Get(list[k], "id") # i

\* C2: update and remove on an identifier that is not in the collection (not
\* in the list the call reads) return false and leave the structured and the
\* flat store as they were.
C2_NotFoundIsFalse ==
    [][\A c \in Cols, i \in Ids :
          (/\ last'.op \in {"update", "remove"}
           /\ last'.c = c /\ last'.id = i
           /\ Absent(Held(c, last'.rd), i))
              => last'.ok = FALSE /\ UNCHANGED <<idb, nextKey, ls>>]_vars

C2_Witness ==
    /\ last.op = "remove" /\ last.ok = FALSE
    /\ idb[last.c] # {} /\ ls[last.c] # <<>>

C2_WitnessUpdate ==
    /\ last.op = "update" /\ last.ok = FALSE
    /\ idb[last.c] # {} /\ ls[last.c] # <<>>

\* the records of list whose identifier is not i, in order
RECURSIVE Others(_, _)
Others(list, i) ==
    IF list = <<>> THEN <<>>
    ELSE IF Get(Head(list), "id") = i THEN Others(Tail(list), i)
         ELSE <<Head(list)>> \o Others(Tail(list), i)

\* the first record of list whose identifier is i
First(list, i) ==
    list[CHOOSE k \in WithId(list, i) : \A j \in WithId(list, i) : k <= j]

\* C3: update on a record present in the collection (found in the list the
\* call reads) returns true; afterwards the stored record is the prior record
\* with the patch merged over it and updatedAt set, at a time not before its
\* createdAt; every other record of the collection is as before.
C3_UpdateMerges ==
    [][\A c \in Cols, i \in Ids, patch \in Patches, o1, o2 \in Outcomes :
          (~Absent(Held(c, Backend(o1)), i) /\ update(c, i, patch, o1, o2)) =>
              LET b == Backend(o1)
                  prior == First(Held(c, b), i)
                  after == HeldAfter(c, b)
              IN /\ last'.ok = TRUE
                 /\ ~Absent(after, i)
                 /\ First(after, i) =
                        Assign(Assign(prior, patch), [updatedAt |-> now])
                 /\ now >= prior.createdAt
                 /\ Others(Held(c, "idb"), i) = Others(HeldAfter(c, "idb"), i)
                 /\ Others(Held(c, "ls"), i) = Others(HeldAfter(c, "ls"), i)]_vars

C3_Witness ==
    /\ last.op = "update" /\ last.ok = TRUE
    /\ last.rd = "idb" /\ last.wr = "ls"

\* C4: within each collection no two records share an identifier, in the
\* structured store and in the flat store.
C4_UniqueIds ==
    \A c \in STORES : \A b \in {"idb", "ls"} : \A i \in 1..(MaxId + MaxTime) :
        Cardinality(WithId(Held(c, b), i)) <= 1

\* C5: the identifiers the store assigns to records put without one are
\* strictly increasing and never reused: each is greater than every
\* identifier assigned in the collection before, also once the record that
\* held it is gone.
C5_FreshIds ==
    [][\A c \in Cols, value \in Payloads, o \in Outcomes :
          (Get(value, "id") = 0 /\ put(c, value, o)) =>
              \A j \in issued[c] : last'.ret > j]_vars

C5_Witness ==
    /\ last.op = "put" /\ last.id = 0 /\ last.wr = "ls"
    /\ Absent(ls[last.c], 1)

\* the createdAt values of the records of list whose identifier is i
CreatedAts(list, i) == {list[k].createdAt : k \in WithId(list, i)}

\* C6: once a record has a createdAt, no later put or update on that record
\* changes it.
C6_CreatedAtKept ==
    [][\A c \in Cols, i \in Ids, b \in {"idb", "ls"} :
          (/\ last'.op \in {"put", "update"}
           /\ last'.c = c /\ last'.id = i /\ last'.wr = b
           /\ ~Absent(Held(c, b), i))
              => CreatedAts(HeldAfter(c, b), i) \subseteq CreatedAts(Held(c, b), i)]_vars

C6_Witness ==
    /\ last.op = "put" /\ last.id # 0 /\ last.wr = "idb"
    /\ \E x \in idb[last.c] : x.id = last.id /\ x.createdAt > 1

----------------------------------------------------------------------------
\* Properties of the remote wrappers and the domain API

\* the domain API's operations on users
UserOps == {"addUser", "listUsers", "deleteUser"}

\* C7: with the remote base configured empty, no list, add or delete of the
\* domain API issues a network call, and listUsers() (no role given) returns
\* exactly what the local facade's getAll returns.
C7_EmptyBaseStaysLocal ==
    (base = "" /\ last.op \in UserOps) =>
        /\ last.net = 0
        /\ (last.op = "listUsers" /\ last.flt = "") =>
                last.loc = "getAll" /\ last.out = Held("users", last.rd)

C7_Witness ==
    /\ base = "" /\ last.op = "listUsers" /\ last.flt = ""
    /\ last.net = 1 /\ last.rem = "array"
    /\ last.out # <<>> /\ idb["users"] = {} /\ ls["users"] = <<>>

\* the domain API's write operations on requests
WriteOps == {"createRequest", "deleteRequest", "approveRequest", "rejectRequest"}

\* the facade operation a write operation of the domain API falls back to
LocalOp(op) ==
    IF op = "createRequest" THEN "put"
    ELSE IF op = "deleteRequest" THEN "remove" ELSE "update"

\* the facade results the fallback of the write operation op on identifier id
\* can come to, from the stores as they are
LocalResults(op, id) ==
    IF op = "createRequest"
    THEN {putResult("requests",
                    Assign([estado |-> "Pendiente", papeleta |-> genPapeleta(x, y)], r),
                    o) : r \in RequestFields, x \in Randoms, y \in Years,
                         o \in Outcomes}
    ELSE IF op = "deleteRequest"
    THEN {removeResult("requests", id, o1, o2) : o1 \in Outcomes, o2 \in Outcomes}
    ELSE IF op = "approveRequest"
    THEN {updateResult("requests", id, [estado |-> "Aprobado"], o1, o2) :
             o1 \in Outcomes, o2 \in Outcomes}
    ELSE {updateResult("requests", id,
                       [estado |-> "Rechazado", observacion |-> obs], o1, o2) :
             obs \in Notes, o1 \in Outcomes, o2 \in Outcomes}

\* C8 as stated: whenever the remote attempt of a write operation fails, by a
\* network error, a non-success status or a malformed response, the call runs
\* the equivalent operation of the local facade.
C8_FailedAttemptFallsBack ==
    (last.op \in WriteOps /\ last.rem \in {"neterr", "status", "okbad"}) =>
        last.loc = LocalOp(last.op)

\* C8, amended: whenever the remote attempt of a write operation fails by a
\* network error or a non-success status, nothing is written remotely, the
\* call runs the equivalent operation of the local facade, and resolves to
\* what that operation resolves to; a response with a success status counts
\* as success whatever its body.
C8_FailedPostFallsBack ==
    [][\A op \in WriteOps :
          (last'.op = op /\ last'.rem \in {"neterr", "status"}) =>
              /\ last'.loc = LocalOp(op)
              /\ blob' = blob
              /\ \E r \in LocalResults(op, last'.id) :
                    /\ last'.ok = r.ok /\ last'.ret = r.ret
                    /\ idb'["requests"] = r.idb
                    /\ ls'["requests"] = r.ls]_vars

C8_Witness ==
    /\ last.op = "approveRequest" /\ last.rem = "status"
    /\ last.loc = "update" /\ last.ok = TRUE
    /\ \E x \in idb["requests"] : x.id = last.id /\ x.estado = "Aprobado"

\* C9: a list operation whose remote fetch returns an array resolves to that
\* array (filtered by the value given, if any) and neither reads nor writes
\* the local stores; on a network error, a non-success status, a malformed
\* body or a body that is no array it resolves to the local facade's getAll
\* (filtered likewise) and does not fail.
C9_ListPrefersRemoteArray ==
    [][last'.op = "listRequests" =>
          /\ UNCHANGED <<idb, nextKey, ls, blob>>
          /\ last'.ok = TRUE
          /\ IF last'.rem = "array"
             THEN /\ last'.out = Filter(blob["requests"], "estado", last'.flt)
                  /\ last'.loc = "-" /\ last'.rd = "-" /\ last'.wr = "-"
             ELSE /\ last'.rem \in {"neterr", "status", "malformed", "nonarray"}
                  /\ last'.loc = "getAll" /\ last'.wr = "-"
                  /\ last'.out =
                        Filter(Held("requests", last'.rd), "estado", last'.flt)]_vars

C9_Witness ==
    /\ last.op = "listRequests" /\ last.rem = "array" /\ last.flt = ""
    /\ last.out = blob["requests"] /\ last.out # <<>>
    /\ last.out # Held("requests", "idb") /\ idb["requests"] # {}

C9_WitnessFallback ==
    /\ last.op = "listRequests" /\ last.rem = "nonarray" /\ last.flt = ""
    /\ last.out = Held("requests", "idb") /\ last.out # <<>>
    /\ last.out # blob["requests"]

\* C10: when the remote attempt of a write operation succeeds (the POST is
\* answered with a success status), the call resolves to true and runs no
\* local operation: the structured and the flat store of every collection
\* are as before the call.
C10_RemoteSuccessSkipsLocal ==
    [][(last'.op \in WriteOps /\ last'.rem \in {"ok", "okbad"}) =>
          /\ last'.ok = TRUE /\ last'.ret = 0
          /\ last'.loc = "-" /\ last'.rd = "-" /\ last'.wr = "-"
          /\ UNCHANGED <<idb, nextKey, ls>>]_vars

C10_Witness ==
    /\ last.op = "deleteRequest" /\ last.rem = "ok" /\ last.loc = "-"
    /\ \E x \in idb["requests"] : x.id = last.id
    /\ Absent(blob["requests"], last.id)

\* C20: a getAll of a collection that directly follows a completed
\* clearStore of it (no put in between) resolves to the empty list,
\* whichever backend served the clear and whichever serves the read.
C20_ClearedReadsEmpty ==
    [][\A c \in Cols :
          (/\ last.op = "clearStore" /\ last.c = c
           /\ last'.op = "getAll" /\ last'.c = c)
              => last'.out = <<>>]_vars

C20_Witness ==
    /\ last.op = "getAll" /\ last.rd = "ls" /\ last.out # <<>>
    /\ idb[last.c] = {}

\* slot k holds a completed update of a record it found
Wrote(k) == upd[k].pc = "done" /\ upd[k].seq > 0

\* C15: when two update calls on the same record overlap, both having read
\* the collection before either wrote, both return true and the record in
\* the store the later write went to is the item of that later call: what it
\* read with its own patch, without the fields the other call patched.
C15_LastWriteWins ==
    \A k \in Slots, j \in Slots :
        (/\ Wrote(k) /\ Wrote(j) /\ upd[k].seq > upd[j].seq
         /\ upd[k].c = upd[j].c /\ upd[k].id = upd[j].id
         /\ upd[k].early /\ upd[j].early)
            => LET item == upd[k].list[upd[k].idx]
                   held == Records(Held(upd[k].c, upd[k].wr), upd[k].id)
               IN /\ upd[k].ok /\ upd[j].ok
                  /\ held = {item}
                  /\ \A fld \in DOMAIN upd[j].patch :
                        fld \notin DOMAIN item \/ item[fld] # upd[j].patch[fld]

C15_Witness ==
    /\ Wrote(1) /\ Wrote(2) /\ upd[2].seq > upd[1].seq
    /\ upd[1].id = upd[2].id /\ upd[1].early /\ upd[2].early
    /\ upd[1].ok /\ upd[2].ok /\ upd[1].wr = "idb" /\ upd[2].wr = "idb"
    /\ \E x \in idb["users"] : x.id = upd[1].id /\ x.f = "a" /\ x.g = "c"

\* C16: the database is opened at most once per page: whatever calls are
\* made, overlapping or not, at most one connection is ever obtained from
\* indexedDB.open, and it is reused.
C16_OpenedOnce == conn.opens <= 1

C16_Witness ==
    /\ last.op = "exportAll" /\ conn.db = "open" /\ conn.opens = 4

\* the backends at which the attempts of a call ended, in order
RECURSIVE Finals(_)
Finals(t) ==
    IF t = <<>> THEN <<>>
    ELSE IF Len(t) >= 2 /\ t[2] = "ls" THEN <<"ls">> \o Finals(SubSeq(t, 3, Len(t)))
         ELSE <<t[1]>> \o Finals(Tail(t))

\* the backends that served the read and the write of call l
Served(l) == SelectSeq(<<l.rd, l.wr>>, LAMBDA b : b # "-")

\* C18: every getAll, put, update, remove and clearStore goes to the
\* structured store first; the flat store is gone to only after a failed
\* attempt on the structured store within the same call, and then serves that
\* attempt; this is so also for the call that follows one that fell back.
C18_StructuredFirst ==
    [][/\ tried' # <<>>
       /\ tried'[1] = "idb"
       /\ \A k \in 1..Len(tried') :
             tried'[k] = "ls" => k > 1 /\ tried'[k - 1] = "idb"
       /\ Served(last') = Finals(tried')]_vars

C18_Witness ==
    /\ last.op = "put" /\ last.wr = "idb" /\ tried = <<"idb">>
    /\ ls[last.c] # <<>>

----------------------------------------------------------------------------
\* Properties of export and import

\* the records of a list, as a set
Range(list) == {list[k] : k \in 1..Len(list)}

\* the place of collection c in the order users, vehicles, requests,
\* movements
Pos(c) == CHOOSE i \in 1..4 : <<"users", "vehicles", "requests", "movements">>[i] = c

\* C13: on the structured store, after exportAll, clearing and
\* importAll(exported) every collection holds again exactly the records that
\* were exported, each under the identifier it had.
C13_ExportImportRestores ==
    (job.pc = "done" /\ ~job.flat)
        => \A c \in STORES :
              /\ idb[c] = Range(job.exported[c])
              /\ \A x \in idb[c], y \in idb[c] : x.id = y.id => x = y

\* an import of records of two collections has returned, all on the
\* structured store
C13_Witness ==
    /\ job.pc = "done" /\ ~job.flat
    /\ \A c \in TransferCols : job.exported[c] # <<>>
    /\ job.data = job.exported

\* C17: importAll starts no put before all four clearStore calls have
\* resolved; it starts the puts one at a time, each after the one before has
\* resolved, in the order of the collections (users, vehicles, requests,
\* movements) and, within a collection, of the input; every put of an item
\* with an identifier resolves to that identifier and leaves a record under it.
C17_ImportSequential ==
    LET items == Items(job.data)
    IN job.pc \in {"clearing", "putting", "done"} =>
          /\ job.started > 0 => job.pend = {}
          /\ job.flying \subseteq {job.started}
          /\ job.started \in 0..Len(items)
          /\ Len(job.rets) = job.started - Cardinality(job.flying)
          /\ Len(job.log) = job.started
          /\ \A k \in 1..(Len(job.log) - 1) :
                Pos(job.log[k][1]) <= Pos(job.log[k + 1][1])
          /\ \A c \in STORES :
                LET sub == SelectSeq(job.log, LAMBDA e : e[1] = c)
                IN /\ Len(sub) <= Len(job.data[c])
                   /\ \A k \in 1..Len(sub) : sub[k][2] = Get(job.data[c][k], "id")
                   /\ (\E e \in Range(job.log) : Pos(e[1]) > Pos(c))
                         => Len(sub) = Len(job.data[c])
          /\ \A k \in 1..Len(job.rets) :
                LET c == items[k][1]
                    i == Get(items[k][2], "id")
                IN i # 0 =>
                      /\ job.rets[k] = i
                      /\ \E x \in idb[c] \cup Range(ls[c]) : Get(x, "id") = i
          /\ job.pc = "done" => job.started = Len(items) /\ job.flying = {}

\* an import of a record of each of two collections has returned, one of its
\* puts having fallen back to the flat store
C17_Witness ==
    /\ job.pc = "done" /\ job.flat
    /\ Len(job.rets) = 2
    /\ job.log[1][1] = "users" /\ job.log[2][1] = "vehicles"

----------------------------------------------------------------------------
\* Frame of the flat fallback of update and remove

\* C21: when update or remove on a record it found writes to the flat store
\* because the structured write failed, the records of the flat store's
\* array other than the targeted one are the same before and after, whichever
\* backend served the read of the call.
C21_FlatFallbackFrame ==
    [][\A c \in Cols, i \in Ids, patch \in Patches, o1 \in Outcomes :
          (/\ Found(c, i, o1)
           /\ \/ update(c, i, patch, o1, "fail")
              \/ remove(c, i, o1, "fail"))
              => /\ last'.wr = "ls"
                 /\ Others(ls[c], i) = Others(ls'[c], i)]_vars

\* a remove has read from the structured store and written to the flat store
C21_Witness ==
    /\ last.op = "remove" /\ last.ok = TRUE
    /\ last.rd = "idb" /\ last.wr = "ls"

----------------------------------------------------------------------------
\* Properties of requests

Digits == {Digit(d) : d \in 0..9}

\* s matches \d{5}-\d{4}
IsTicket(s) ==
    /\ Len(s) = 10
    /\ \A k \in 1..5 : s[k] \in Digits
    /\ s[6] = "-"
    /\ \A k \in 7..10 : s[k] \in Digits

\* the request record the createRequest call of this step has stored: in the
\* local backend that served its put, or appended to the remote collection
Yielded ==
    IF last'.loc = "put"
    THEN Records(HeldAfter("requests", last'.wr), last'.ret)
    ELSE IF last'.rem = "ok"
         THEN {blob'["requests"][Len(blob'["requests"])]}
         ELSE {}

\* C11: whatever fields the caller gives, the record createRequest yields
\* has estado "Pendiente" and a papeleta of five digits, a hyphen and four
\* digits.
C11_CreatedPending ==
    [][last'.op = "createRequest" =>
          \A x \in Yielded : /\ x.estado = "Pendiente"
                             /\ IsTicket(x.papeleta)]_vars

C11_Witness ==
    /\ last.op = "createRequest" /\ last.loc = "put" /\ last.wr = "idb"
    /\ \E x \in idb["requests"] : x.id = last.ret /\ x.estado = "Aprobado"

\* what approveRequest / rejectRequest make of the record prior
Decided(op, prior) ==
    IF op = "approveRequest"
    THEN {Assign(prior, [estado |-> "Aprobado", updatedAt |-> now])}
    ELSE {Assign(prior, [estado |-> "Rechazado", observacion |-> obs,
                         updatedAt |-> now]) : obs \in Notes}

\* C12: approveRequest(id) on an existing request changes only its estado
\* (to "Aprobado") and its updatedAt, rejectRequest(id, obs) sets estado to
\* "Rechazado" and observacion to obs; every other field of the request and
\* every other record is as before.  "Existing" is existing in the store the
\* call operates on: the local backend its update reads, or the remote
\* collection when the POST is handled.
C12_DecisionFrame ==
    [][\A i \in Ids :
          (last'.op \in {"approveRequest", "rejectRequest"} /\ last'.id = i) =>
              /\ (last'.loc = "update" /\ ~Absent(Held("requests", last'.rd), i)) =>
                    LET b == last'.rd
                        after == HeldAfter("requests", b)
                    IN /\ last'.ok = TRUE
                       /\ ~Absent(after, i)
                       /\ First(after, i) \in
                              Decided(last'.op, First(Held("requests", b), i))
                       /\ Others(Held("requests", "idb"), i)
                              = Others(HeldAfter("requests", "idb"), i)
                       /\ Others(Held("requests", "ls"), i)
                              = Others(HeldAfter("requests", "ls"), i)
              /\ (last'.rem = "ok" /\ ~Absent(blob["requests"], i)) =>
                    /\ ~Absent(blob'["requests"], i)
                    /\ First(blob'["requests"], i) \in
                           Decided(last'.op, First(blob["requests"], i))
                    /\ Others(blob["requests"], i) = Others(blob'["requests"], i)]_vars

C12_Witness ==
    /\ last.op = "approveRequest" /\ last.ok = TRUE
    /\ last.rd = "idb" /\ last.wr = "ls"
    /\ \E x \in idb["requests"] : x.id = last.id /\ x.estado = "Pendiente"

\* the estado values of the records of list whose identifier is i
EstadosOf(list, i) == {Get(x, "estado") : x \in Records(list, i)}

\* the changes of estado the life cycle of a request allows
Allowed == {<<"Pendiente", "Aprobado">>, <<"Pendiente", "Rechazado">>}

\* C14: in every store, whatever the call, the estado of a request that is
\* there before and after the call is unchanged, or has gone from
\* "Pendiente" to "Aprobado" or from "Pendiente" to "Rechazado".
C14_OnlyFromPending ==
    [][\A i \in 1..(MaxId + MaxTime) :
          \A s \in {<<Held("requests", "idb"), HeldAfter("requests", "idb")>>,
                     <<ls["requests"], ls'["requests"]>>,
                     <<blob["requests"], blob'["requests"]>>} :
             \A before \in EstadosOf(s[1], i), after \in EstadosOf(s[2], i) :
                before # after => <<before, after>> \in Allowed]_vars

C14_Witness ==
    /\ last.op = "rejectRequest" /\ last.wr = "idb"
    /\ \E x \in idb["requests"] : x.id = last.id /\ x.estado = "Rechazado"

----------------------------------------------------------------------------
\* Properties of the remote handler

\* C19: every add stores, at the end of the collection, a record whose
\* identifier is the greatest identifier of the collection plus one (1 when
\* it is empty), whatever the payload carries; an add therefore never makes
\* two records of the collection share an identifier.
C19_AddAssignsNextId ==
    [][\A c \in STORES :
          (last'.op = "add" /\ last'.c = c /\ last'.rem = "ok") =>
              LET list == blob'[c]
              IN /\ Len(list) = Len(blob[c]) + 1
                 /\ list[Len(list)].id = NextRemoteId(blob[c])
                 /\ \A i \in 1..(MaxId + MaxTime) :
                       Cardinality(WithId(blob[c], i)) <= 1
                           => Cardinality(WithId(list, i)) <= 1]_vars

C19_Witness ==
    /\ last.op = "add" /\ last.rem = "ok"
    /\ Cardinality(WithId(blob["requests"], 1)) = 2

====
